---------------------------- MODULE Spec2Model ----------------------------
(***************************************************************************)
(* HireReady AI backend (FastAPI): the question catalogue                  *)
(* (routers/interview.py), the answer scorer and report aggregator         *)
(* (routers/analyze.py) and the resume analyser (routers/resume.py).       *)
(*                                                                         *)
(* Python strings are sequences of one-character strings, so that          *)
(* str.lower, str.count, str.split, str.strip, slicing and the `in`        *)
(* substring test are computed rather than assumed.  The character set is  *)
(* ASCII.  Durations are whole seconds; words-per-minute is kept as the    *)
(* exact fraction word_count*60/duration_seconds and compared by           *)
(* cross-multiplication.                                                   *)
(***************************************************************************)
EXTENDS Integers, Sequences, FiniteSets, TLC

VARIABLES
    op,        \* the function or endpoint of the current call
    req,       \* its arguments
    resp,      \* its result: none yet, a return value, or an HTTP response
    tmpfiles,  \* temporary files that exist on disk (by creation number)
    created,   \* number of temporary files created so far
    bank       \* the module-level QUESTION_BANK dictionary

vars == <<op, req, resp, tmpfiles, created, bank>>

(***************************************************************************)
(* Bounds of the model.                                                    *)
(***************************************************************************)
MaxFrags == 2      \* fragments concatenated into a transcript or resume text
MaxSkills == 6     \* length of a skills list given to the question generator
MaxScores == 3     \* length of a scores list given to the report
MaxUploads == 2    \* upload requests (temporary files created) in one run

(***************************************************************************)
(* Python built-ins on strings and numbers.                                *)
(***************************************************************************)
UpperCase == <<"A","B","C","D","E","F","G","H","I","J","K","L","M",
               "N","O","P","Q","R","S","T","U","V","W","X","Y","Z">>
LowerCase == <<"a","b","c","d","e","f","g","h","i","j","k","l","m",
               "n","o","p","q","r","s","t","u","v","w","x","y","z">>
Whitespace == {" ", "\t", "\n", "\r"}
Digits == <<"0","1","2","3","4","5","6","7","8","9">>

UpperSet == {UpperCase[i] : i \in 1..Len(UpperCase)}
ToLower == [c \in UpperSet |-> LowerCase[CHOOSE i \in 1..Len(UpperCase) : UpperCase[i] = c]]

\* str.lower() on one character
LowerChar(c) == IF c \in UpperSet THEN ToLower[c] ELSE c

\* str.lower()
Lower(s) == [i \in 1..Len(s) |-> LowerChar(s[i])]

\* s[i:].startswith(sub), i counted from 1
MatchAt(s, sub, i) ==
    /\ i + Len(sub) - 1 <= Len(s)
    /\ \A k \in 1..Len(sub) : s[i + k - 1] = sub[k]

\* `sub in s`
Contains(s, sub) == \E i \in 1..(Len(s) - Len(sub) + 1) : MatchAt(s, sub, i)

\* s.count(sub) for non-empty sub: non-overlapping occurrences, left to right
RECURSIVE CountFrom(_, _, _)
CountFrom(s, sub, i) ==
    IF i + Len(sub) - 1 > Len(s) THEN 0
    ELSE IF MatchAt(s, sub, i) THEN 1 + CountFrom(s, sub, i + Len(sub))
    ELSE CountFrom(s, sub, i + 1)

Count(s, sub) == CountFrom(s, sub, 1)

\* len(s.split()): the maximal runs of non-whitespace characters
WordCount(s) ==
    Cardinality({i \in 1..Len(s) :
        /\ s[i] \notin Whitespace
        /\ (i = 1 \/ s[i - 1] \in Whitespace)})

\* `not s` without the strip
IsEmpty(s) == s = <<>>

\* s.strip() == "" (the truth value of `not s.strip()`)
IsBlank(s) == \A i \in 1..Len(s) : s[i] \in Whitespace

\* s[:n]
Prefix(s, n) == SubSeq(s, 1, IF n < Len(s) THEN n ELSE Len(s))

Min(a, b) == IF a < b THEN a ELSE b
Max(a, b) == IF a > b THEN a ELSE b

\* rounding that takes a tie to the upper neighbour
round_half_up(n, d) ==
    LET q == n \div d
        r == n % d
    IN  IF 2 * r < d THEN q ELSE q + 1

\* round(n / d) for d > 0: nearest integer, a tie going to the even neighbour
Round(n, d) ==
    LET q == n \div d
        r == n % d
    IN  IF 2 * r < d THEN q
        ELSE IF 2 * r > d THEN q + 1
        ELSE IF q % 2 = 0 THEN q ELSE q + 1

RECURSIVE SumSeq(_)
SumSeq(s) == IF s = <<>> THEN 0 ELSE Head(s) + SumSeq(Tail(s))

RECURSIVE Concat(_)
Concat(ss) == IF ss = <<>> THEN <<>> ELSE Head(ss) \o Concat(Tail(ss))

\* every sequence of at most n elements of S
SeqsUpTo(S, n) == UNION {[1..k -> S] : k \in 0..n}

\* s.rfind(c), counted from 1; 0 when c does not occur
LastIndex(s, c) ==
    IF \E i \in 1..Len(s) : s[i] = c
    THEN CHOOSE i \in 1..Len(s) : s[i] = c /\ \A j \in (i + 1)..Len(s) : s[j] # c
    ELSE 0

\* os.path.splitext(p)[1]: from the last dot of the last path component, unless
\* only dots precede it there
splitext_ext(p) ==
    LET sepIndex == LastIndex(p, "/")
        dotIndex == LastIndex(p, ".")
    IN  IF /\ dotIndex > sepIndex
           /\ \E k \in (sepIndex + 1)..(dotIndex - 1) : p[k] # "."
        THEN SubSeq(p, dotIndex, Len(p))
        ELSE <<>>

(***************************************************************************)
(* routers/analyze.py: calculate_confidence_score                          *)
(***************************************************************************)
filler_words == <<
    <<"u","m">>,   \* um
    <<"u","h">>,   \* uh
    <<"l","i","k","e">>,   \* like
    <<"y","o","u"," ","k","n","o","w">>,   \* you know
    <<"b","a","s","i","c","a","l","l","y">>,   \* basically
    <<"l","i","t","e","r","a","l","l","y">>,   \* literally
    <<"a","c","t","u","a","l","l","y">>,   \* actually
    <<"s","o"," ","s","o">>,   \* so so
    <<"k","i","n","d","a">>   \* kinda
>>

\* length_score with the first band closed at 10
length_score_le10(word_count) ==
    IF word_count <= 10 THEN 20
    ELSE IF word_count < 30 THEN 45
    ELSE IF word_count < 50 THEN 65
    ELSE IF word_count <= 150 THEN 90
    ELSE IF word_count <= 250 THEN 75
    ELSE 55

length_score(word_count) ==
    IF word_count < 10 THEN 20
    ELSE IF word_count < 30 THEN 45
    ELSE IF word_count < 50 THEN 65
    ELSE IF word_count <= 150 THEN 90
    ELSE IF word_count <= 250 THEN 75
    ELSE 55

\* wpm as the fraction num/den (den > 0): (word_count / duration_seconds) * 60,
\* or 0 when duration_seconds is not positive
words_per_minute(word_count, duration_seconds) ==
    IF duration_seconds > 0
    THEN [num |-> word_count * 60, den |-> duration_seconds]
    ELSE [num |-> 0, den |-> 1]

pace_score(wpm) ==
    LET \* lo <= wpm, wpm <= hi and their strict forms, on the fraction
        Ge(k) == k * wpm.den <= wpm.num
        Le(k) == wpm.num <= k * wpm.den
        Gt(k) == k * wpm.den < wpm.num
        Lt(k) == wpm.num < k * wpm.den
    IN  IF Ge(120) /\ Le(160) THEN 100
        ELSE IF (Ge(90) /\ Lt(120)) \/ (Gt(160) /\ Le(190)) THEN 80
        ELSE IF (Ge(60) /\ Lt(90)) \/ (Gt(190) /\ Le(220)) THEN 60
        ELSE 40

\* sum(transcript.lower().count(fw) for fw in filler_words)
filler_count(transcript) ==
    LET lowered == Lower(transcript)
    IN  SumSeq([i \in 1..Len(filler_words) |-> Count(lowered, filler_words[i])])

filler_penalty(count) == Min(count * 3, 20)

\* twice raw_score, which is a multiple of one half
raw_score2(length, pace, penalty) == length + pace - 2 * penalty

\* max(10, min(100, round(raw_score)))
final_score(raw2) == Max(10, Min(100, Round(raw2, 2)))

\* rating with strict thresholds
rating_strict(score) ==
    IF score > 85 THEN "Excellent"
    ELSE IF score > 70 THEN "Good"
    ELSE IF score > 50 THEN "Average"
    ELSE "Needs Improvement"

rating(score) ==
    IF score >= 85 THEN "Excellent"
    ELSE IF score >= 70 THEN "Good"
    ELSE IF score >= 50 THEN "Average"
    ELSE "Needs Improvement"

\* round(wpm, 1), in tenths.  The durations of the model give no wpm that lies
\* halfway between two tenths, where the float's binary value would decide.
round_wpm10(wpm) == Round(wpm.num * 10, wpm.den)

calculate_confidence_score(transcript, duration_seconds, word_count) ==
    LET length == length_score(word_count)
        wpm == words_per_minute(word_count, duration_seconds)
        pace == pace_score(wpm)
        count == filler_count(transcript)
        penalty == filler_penalty(count)
        score == final_score(raw_score2(length, pace, penalty))
    IN  [confidence_score |-> score,
         rating |-> rating(score),
         breakdown |->
            [length_score |-> length,
             pace_score |-> pace,
             filler_penalty |-> penalty,
             words_per_minute10 |-> round_wpm10(wpm),
             filler_count |-> count]]

(***************************************************************************)
(* Results and HTTP responses.                                             *)
(***************************************************************************)
NoRequest == [kind |-> "none"]
NoResponse == [kind |-> "none"]
Return(v) == [kind |-> "return", value |-> v]
\* a returned dict, sent by FastAPI as 200 with that body
Ok(body) == [kind |-> "http", status |-> 200, body |-> body]
\* raise HTTPException(status_code, detail)
HttpError(status, detail) == [kind |-> "http", status |-> status, body |-> [detail |-> detail]]
\* an exception no handler catches: FastAPI answers 500 Internal Server Error
Unhandled(exception) == [kind |-> "http", status |-> 500, body |-> [exception |-> exception]]

(***************************************************************************)
(* routers/interview.py                                                    *)
(***************************************************************************)
\* the dict literal, as its items in insertion order
QUESTION_BANK == <<
    [role |-> "Software Engineer", questions |-> <<
        "Tell me about yourself and your software engineering background.",
        "Describe a challenging technical problem you solved recently.",
        "How do you ensure code quality in your projects?",
        "Explain the difference between REST and GraphQL APIs.",
        "How do you approach system design for a scalable application?",
        "Describe your experience with version control and CI/CD pipelines.",
        "How do you handle disagreements with your team about technical decisions?",
        "Where do you see yourself in 5 years as an engineer?">>],
    [role |-> "Frontend Developer", questions |-> <<
        "Tell me about your experience with React or other frontend frameworks.",
        "How do you optimize a slow-loading web page?",
        "Explain the difference between CSS Grid and Flexbox.",
        "How do you handle state management in large applications?",
        "Describe a complex UI you've built from scratch.",
        "How do you ensure accessibility in your web projects?",
        "What is your approach to responsive design?",
        "How do you stay up to date with frontend trends?">>],
    [role |-> "Data Scientist", questions |-> <<
        "Walk me through a machine learning project you've worked on.",
        "How do you handle missing data in a dataset?",
        "Explain the difference between supervised and unsupervised learning.",
        "How do you evaluate a model's performance?",
        "Describe your experience with Python data libraries like pandas or NumPy.",
        "What is overfitting and how do you prevent it?",
        "How would you explain a complex model to a non-technical stakeholder?",
        "Describe your experience with data visualization.">>],
    [role |-> "Product Manager", questions |-> <<
        "Tell me about a product you successfully launched.",
        "How do you prioritize features in a product roadmap?",
        "Describe how you gather and analyze user feedback.",
        "How do you handle conflicts between engineering and business needs?",
        "Walk me through how you define product requirements.",
        "How do you measure the success of a product feature?",
        "Describe a time you made a data-driven product decision.",
        "Where do you see the future of this product going?">>],
    [role |-> "DevOps Engineer", questions |-> <<
        "Describe your experience with containerization tools like Docker or Kubernetes.",
        "How do you design a CI/CD pipeline from scratch?",
        "What strategies do you use for monitoring and alerting?",
        "How do you handle infrastructure as code?",
        "Describe a production incident you resolved and how you handled it.",
        "How do you ensure security in a cloud environment?",
        "What is your approach to disaster recovery planning?",
        "How do you balance speed and stability in deployments?">>]
>>

\* `key in d` and d[key] on a dict held as its items
HasKey(d, key) == \E i \in 1..Len(d) : d[i].role = key
Item(d, key) == d[CHOOSE i \in 1..Len(d) : d[i].role = key].questions

DEFAULT_QUESTIONS == Item(QUESTION_BANK, "Software Engineer")

\* QUESTION_BANK.get(role, []): an unknown role gets no questions
bank_get_no_default(d, role) == IF HasKey(d, role) THEN Item(d, role) ELSE <<>>

\* QUESTION_BANK.get(role, DEFAULT_QUESTIONS)
bank_get(d, role) == IF HasKey(d, role) THEN Item(d, role) ELSE DEFAULT_QUESTIONS

\* the names bound in the module's namespace: its imports and its globals
interview_namespace ==
    {"APIRouter", "Query", "Optional", "router", "QUESTION_BANK", "DEFAULT_QUESTIONS",
     "get_questions", "get_single_question", "get_roles"}

\* evaluating JSONResponse(status_code=..., content=...) inside interview.py: the
\* name is looked up in the module's namespace when the call is reached
JSONResponse(status_code, content) ==
    IF "JSONResponse" \in interview_namespace
    THEN [kind |-> "http", status |-> status_code, body |-> content]
    ELSE Unhandled("NameError")

get_questions(d, role) ==
    LET questions == bank_get(d, role)
    IN  Ok([role |-> role, total |-> Len(questions), questions |-> questions])

\* index is Python's 0-based index; sequences here are 1-based
get_single_question(d, index, role) ==
    LET questions == bank_get(d, role)
    IN  IF index < 0 \/ index >= Len(questions)
        THEN JSONResponse(404,
                [error |-> <<"Question index ", index, " out of range. Total: ",
                             Len(questions)>>])
        ELSE Ok([role |-> role,
                 index |-> index,
                 total |-> Len(questions),
                 question |-> questions[index + 1],
                 is_last |-> (index = Len(questions) - 1)])

get_roles(d) == Ok([roles |-> [i \in 1..Len(d) |-> d[i].role]])

\* role strings a client may send: the keys, and strings that are no key
Roles == {"Software Engineer", "Frontend Developer", "Data Scientist", "Product Manager",
          "DevOps Engineer", "Unknown Role", "software engineer", ""}
\* indexes a client may send, on both sides of the range of every list
Indexes == -2..9

GetQuestions ==
    /\ op = "idle"
    /\ \E role \in Roles :
        /\ op' = "get_questions"
        /\ req' = [role |-> role]
        /\ resp' = get_questions(bank, role)
    /\ UNCHANGED <<tmpfiles, created, bank>>

GetSingleQuestion ==
    /\ op = "idle"
    /\ \E role \in Roles, index \in Indexes :
        /\ op' = "get_single_question"
        /\ req' = [role |-> role, index |-> index]
        /\ resp' = get_single_question(bank, index, role)
    /\ UNCHANGED <<tmpfiles, created, bank>>

GetRoles ==
    /\ op = "idle"
    /\ op' = "get_roles"
    /\ req' = NoRequest
    /\ resp' = get_roles(bank)
    /\ UNCHANGED <<tmpfiles, created, bank>>

(***************************************************************************)
(* Temporary files.  tempfile.NamedTemporaryFile(delete=False) creates a   *)
(* file under a fresh name that closing does not remove; os.unlink removes *)
(* it.  A file is named by its creation number; the suffix asked for only  *)
(* shapes the rest of its name.                                            *)
(***************************************************************************)
NamedTemporaryFile(files, n) == files \cup {n}
unlink(files, n) == files \ {n}

\* how `content = await upload.read(); tmp.write(content)` inside the `with` can end
Stagings == {"ok", "read_error", "write_error"}

(***************************************************************************)
(* routers/analyze.py: the endpoints                                       *)
(***************************************************************************)
\* what the speech_recognition calls inside the try block can do: return a
\* transcript, or raise UnknownValueError, RequestError or another exception
\* (AudioFile raises ValueError on an audio format it cannot read)
Recognitions(transcripts) ==
    [kind : {"transcript"}, text : transcripts]
        \cup {[kind |-> "UnknownValueError"], [kind |-> "RequestError"],
              [kind |-> "ValueError"]}

\* transcribe without the final `except Exception`: the exception propagates
transcribe_no_catch_all(recognition) ==
    IF recognition.kind = "transcript"
    THEN [transcript |-> recognition.text,
          word_count |-> WordCount(recognition.text),
          raised |-> "none"]
    ELSE IF recognition.kind = "UnknownValueError"
    THEN [transcript |-> <<>>, word_count |-> 0, raised |-> "none"]
    ELSE IF recognition.kind = "RequestError"
    THEN [transcript |-> <<>>, word_count |-> 0, raised |-> "HTTPException"]
    ELSE [transcript |-> <<>>, word_count |-> 0, raised |-> recognition.kind]

\* the try/except of analyze_audio: the transcript and word_count it leaves, and
\* the exception that leaves it ("none" when it is caught or there is none)
transcribe(recognition) ==
    IF recognition.kind = "transcript"
    THEN [transcript |-> recognition.text,
          word_count |-> WordCount(recognition.text),
          raised |-> "none"]
    ELSE IF recognition.kind = "UnknownValueError"
    THEN [transcript |-> <<>>, word_count |-> 0, raised |-> "none"]
    ELSE IF recognition.kind = "RequestError"
    THEN [transcript |-> <<>>, word_count |-> 0, raised |-> "HTTPException"]
    ELSE \* except Exception
         [transcript |-> <<>>, word_count |-> 0, raised |-> "none"]

\* the handler from the request r and the files on disk; tmp_path is the name
\* the temporary file gets.  The result is the response and the files left.
analyze_audio(files, tmp_path, r) ==
    LET staged == NamedTemporaryFile(files, tmp_path)
        t == transcribe(r.recognition)
        \* finally: os.unlink(tmp_path)
        cleaned == unlink(staged, tmp_path)
    IN  IF r.staging # "ok"
        THEN \* the exception leaves the `with` block before the try is entered
             [resp |-> Unhandled("OSError"), files |-> staged]
        ELSE IF t.raised = "HTTPException"
        THEN [resp |-> HttpError(503, "Speech recognition service unavailable"),
              files |-> cleaned]
        ELSE IF t.raised # "none"
        THEN [resp |-> Unhandled(t.raised), files |-> cleaned]
        ELSE [resp |-> Ok([question_index |-> r.question_index,
                           transcript |-> t.transcript,
                           word_count |-> t.word_count,
                           duration_seconds |-> r.duration]
                          @@ calculate_confidence_score(
                                t.transcript, r.duration, t.word_count)),
              files |-> cleaned]

analyze_text(r) ==
    LET word_count == WordCount(r.transcript)
    IN  Ok([question_index |-> r.question_index,
            transcript |-> r.transcript,
            word_count |-> word_count,
            duration_seconds |-> r.duration]
           @@ calculate_confidence_score(r.transcript, r.duration, word_count))

\* max that keeps the last of equal elements
best_of_last(scores) ==
    LET keep[i \in 1..Len(scores)] ==
            IF i = 1 THEN scores[1]
            ELSE IF scores[i].confidence_score >= keep[i - 1].confidence_score
                 THEN scores[i] ELSE keep[i - 1]
    IN  keep[Len(scores)]

\* max(scores, key=...) and min(scores, key=...): the scan keeps the element it
\* holds unless a later one is strictly greater (smaller)
best_of(scores) ==
    LET keep[i \in 1..Len(scores)] ==
            IF i = 1 THEN scores[1]
            ELSE IF scores[i].confidence_score > keep[i - 1].confidence_score
                 THEN scores[i] ELSE keep[i - 1]
    IN  keep[Len(scores)]

worst_of(scores) ==
    LET keep[i \in 1..Len(scores)] ==
            IF i = 1 THEN scores[1]
            ELSE IF scores[i].confidence_score < keep[i - 1].confidence_score
                 THEN scores[i] ELSE keep[i - 1]
    IN  keep[Len(scores)]

\* round(sum(s["confidence_score"] for s in scores) / len(scores))
avg_score(scores) ==
    Round(SumSeq([i \in 1..Len(scores) |-> scores[i].confidence_score]), Len(scores))

summary(overall_rating) ==
    CASE overall_rating = "Excellent" ->
            "Outstanding performance! You demonstrated strong communication, clarity, and confidence throughout the interview."
      [] overall_rating = "Good" ->
            "Solid performance overall. You showed good communication skills with some room to improve depth and fluency."
      [] overall_rating = "Average" ->
            "Decent attempt. Focus on reducing filler words, increasing answer depth, and maintaining a steady speaking pace."
      [] OTHER ->
            "Keep practicing! Work on structuring your answers using the STAR method and building confidence in delivery."

generate_report(scores) ==
    IF scores = <<>>
    THEN HttpError(400, "No scores provided.")
    ELSE LET avg == avg_score(scores)
             best == best_of(scores)
             worst == worst_of(scores)
         IN  Ok([overall_score |-> avg,
                 overall_rating |-> rating(avg),
                 summary |-> summary(rating(avg)),
                 total_questions |-> Len(scores),
                 best_answer |-> [question_index |-> best.question_index,
                                  score |-> best.confidence_score],
                 weakest_answer |-> [question_index |-> worst.question_index,
                                     score |-> worst.confidence_score],
                 per_question |-> scores])

(***************************************************************************)
(* routers/resume.py                                                       *)
(***************************************************************************)
TECH_SKILLS == <<
    <<"p","y","t","h","o","n">>,   \* python
    <<"j","a","v","a","s","c","r","i","p","t">>,   \* javascript
    <<"t","y","p","e","s","c","r","i","p","t">>,   \* typescript
    <<"j","a","v","a">>,   \* java
    <<"c","+","+">>,   \* c++
    <<"c","#">>,   \* c#
    <<"g","o">>,   \* go
    <<"r","u","s","t">>,   \* rust
    <<"r","u","b","y">>,   \* ruby
    <<"p","h","p">>,   \* php
    <<"s","w","i","f","t">>,   \* swift
    <<"k","o","t","l","i","n">>,   \* kotlin
    <<"s","c","a","l","a">>,   \* scala
    <<"r">>,   \* r
    <<"m","a","t","l","a","b">>,   \* matlab
    <<"r","e","a","c","t">>,   \* react
    <<"v","u","e">>,   \* vue
    <<"a","n","g","u","l","a","r">>,   \* angular
    <<"n","e","x","t",".","j","s">>,   \* next.js
    <<"t","a","i","l","w","i","n","d">>,   \* tailwind
    <<"h","t","m","l">>,   \* html
    <<"c","s","s">>,   \* css
    <<"s","a","s","s">>,   \* sass
    <<"r","e","d","u","x">>,   \* redux
    <<"g","r","a","p","h","q","l">>,   \* graphql
    <<"w","e","b","p","a","c","k">>,   \* webpack
    <<"f","a","s","t","a","p","i">>,   \* fastapi
    <<"d","j","a","n","g","o">>,   \* django
    <<"f","l","a","s","k">>,   \* flask
    <<"n","o","d","e",".","j","s">>,   \* node.js
    <<"e","x","p","r","e","s","s">>,   \* express
    <<"s","p","r","i","n","g">>,   \* spring
    <<"r","a","i","l","s">>,   \* rails
    <<"r","e","s","t"," ","a","p","i">>,   \* rest api
    <<"m","i","c","r","o","s","e","r","v","i","c","e","s">>,   \* microservices
    <<"p","a","n","d","a","s">>,   \* pandas
    <<"n","u","m","p","y">>,   \* numpy
    <<"t","e","n","s","o","r","f","l","o","w">>,   \* tensorflow
    <<"p","y","t","o","r","c","h">>,   \* pytorch
    <<"s","c","i","k","i","t","-","l","e","a","r","n">>,   \* scikit-learn
    <<"k","e","r","a","s">>,   \* keras
    <<"m","a","c","h","i","n","e"," ","l","e","a","r","n","i","n","g">>,   \* machine learning
    <<"d","e","e","p"," ","l","e","a","r","n","i","n","g">>,   \* deep learning
    <<"n","l","p">>,   \* nlp
    <<"c","o","m","p","u","t","e","r"," ","v","i","s","i","o","n">>,   \* computer vision
    <<"d","a","t","a"," ","s","c","i","e","n","c","e">>,   \* data science
    <<"s","q","l">>,   \* sql
    <<"p","o","s","t","g","r","e","s","q","l">>,   \* postgresql
    <<"m","y","s","q","l">>,   \* mysql
    <<"m","o","n","g","o","d","b">>,   \* mongodb
    <<"r","e","d","i","s">>,   \* redis
    <<"d","o","c","k","e","r">>,   \* docker
    <<"k","u","b","e","r","n","e","t","e","s">>,   \* kubernetes
    <<"a","w","s">>,   \* aws
    <<"g","c","p">>,   \* gcp
    <<"a","z","u","r","e">>,   \* azure
    <<"c","i","/","c","d">>,   \* ci/cd
    <<"j","e","n","k","i","n","s">>,   \* jenkins
    <<"g","i","t","h","u","b"," ","a","c","t","i","o","n","s">>,   \* github actions
    <<"t","e","r","r","a","f","o","r","m">>,   \* terraform
    <<"l","i","n","u","x">>,   \* linux
    <<"g","i","t">>,   \* git
    <<"a","g","i","l","e">>,   \* agile
    <<"s","c","r","u","m">>,   \* scrum
    <<"j","i","r","a">>,   \* jira
    <<"f","i","g","m","a">>,   \* figma
    <<"a","d","o","b","e"," ","x","d">>   \* adobe xd
>>

SOFT_SKILLS == <<
    <<"l","e","a","d","e","r","s","h","i","p">>,   \* leadership
    <<"c","o","m","m","u","n","i","c","a","t","i","o","n">>,   \* communication
    <<"t","e","a","m","w","o","r","k">>,   \* teamwork
    <<"p","r","o","b","l","e","m"," ","s","o","l","v","i","n","g">>,   \* problem solving
    <<"c","r","i","t","i","c","a","l"," ","t","h","i","n","k","i","n","g">>,   \* critical thinking
    <<"t","i","m","e"," ","m","a","n","a","g","e","m","e","n","t">>,   \* time management
    <<"c","o","l","l","a","b","o","r","a","t","i","o","n">>,   \* collaboration
    <<"m","e","n","t","o","r","i","n","g">>,   \* mentoring
    <<"p","u","b","l","i","c"," ","s","p","e","a","k","i","n","g">>,   \* public speaking
    <<"p","r","o","j","e","c","t"," ","m","a","n","a","g","e","m","e","n","t">>   \* project management
>>

\* [skill for skill in vocabulary if skill in text_lower]
found_in(vocabulary, text_lower) ==
    SelectSeq(vocabulary, LAMBDA skill : Contains(text_lower, skill))

\* extract_skills without text.lower()
extract_skills_case_sensitive(text) ==
    LET found_tech == found_in(TECH_SKILLS, text)
        found_soft == found_in(SOFT_SKILLS, text)
    IN  [technical |-> found_tech,
         soft |-> found_soft,
         all |-> found_tech \o found_soft]

extract_skills(text) ==
    LET text_lower == Lower(text)
        found_tech == found_in(TECH_SKILLS, text_lower)
        found_soft == found_in(SOFT_SKILLS, text_lower)
    IN  [technical |-> found_tech,
         soft |-> found_soft,
         all |-> found_tech \o found_soft]

\* the dict literal inside generate_personalized_questions, as its items
skill_questions == <<
    [skill |-> <<"p","y","t","h","o","n">>,
     question |-> "Can you walk me through a Python project where you used advanced features like decorators or async programming?"],
    [skill |-> <<"r","e","a","c","t">>,
     question |-> "How have you managed complex state in a large React application?"],
    [skill |-> <<"m","a","c","h","i","n","e"," ","l","e","a","r","n","i","n","g">>,
     question |-> "Describe a machine learning model you built end to end -- from data to deployment."],
    [skill |-> <<"d","o","c","k","e","r">>,
     question |-> "How have you used Docker in your development or deployment workflow?"],
    [skill |-> <<"s","q","l">>,
     question |-> "Can you explain a time you optimized a slow SQL query?"],
    [skill |-> <<"a","w","s">>,
     question |-> "What AWS services have you used and what were the use cases?"],
    [skill |-> <<"l","e","a","d","e","r","s","h","i","p">>,
     question |-> "Tell me about a time you led a team through a difficult project."],
    [skill |-> <<"t","y","p","e","s","c","r","i","p","t">>,
     question |-> "How has TypeScript improved the quality of your JavaScript projects?"],
    [skill |-> <<"f","a","s","t","a","p","i">>,
     question |-> "Describe an API you built with FastAPI. What design decisions did you make?"],
    [skill |-> <<"d","j","a","n","g","o">>,
     question |-> "What's your approach to structuring a Django project for scalability?"],
    [skill |-> <<"k","u","b","e","r","n","e","t","e","s">>,
     question |-> "How have you used Kubernetes to manage containerized applications?"],
    [skill |-> <<"t","e","n","s","o","r","f","l","o","w">>,
     question |-> "Walk me through a neural network you trained using TensorFlow."],
    [skill |-> <<"c","o","m","m","u","n","i","c","a","t","i","o","n">>,
     question |-> "Give an example of how you communicated a complex technical concept to a non-technical stakeholder."]
>>

\* the regular expressions of extract_experience_years, matched at position i of
\* the lower-cased text.  Each piece is greedy, and no piece can give back a
\* character that the next piece accepts, so the match from i is unique.  A
\* result of 0 means no match; otherwise it is the position after the match.
DigitSet == {Digits[i] : i \in 1..Len(Digits)}

\* the first position from i on whose character is not in S
SkipWhile(s, i, S) ==
    IF \E j \in i..Len(s) : s[j] \notin S
    THEN CHOOSE j \in i..Len(s) : s[j] \notin S /\ \A k \in i..(j - 1) : s[k] \in S
    ELSE Len(s) + 1

Literal(s, i, lit) == IF i > 0 /\ MatchAt(s, lit, i) THEN i + Len(lit) ELSE 0

\* (\d+)\+?\s*years?
YearsAt(s, i) ==
    LET j == SkipWhile(s, i, DigitSet)
        k == IF j <= Len(s) /\ s[j] = "+" THEN j + 1 ELSE j
        m == SkipWhile(s, k, Whitespace)
        n == Literal(s, m, <<"y","e","a","r">>)
    IN  IF j = i \/ n = 0 THEN 0
        ELSE IF n <= Len(s) /\ s[n] = "s" THEN n + 1 ELSE n

\* int() of the digits s[i..j-1]
RECURSIVE IntOf(_, _, _)
IntOf(s, i, j) ==
    IF j <= i THEN 0
    ELSE 10 * IntOf(s, i, j - 1)
            + (CHOOSE d \in 0..9 : Digits[d + 1] = s[j - 1])

\* group(1) of a match whose digits start at i
GroupAt(s, i) == IntOf(s, i, SkipWhile(s, i, DigitSet))

\* pattern 1: (\d+)\+?\s*years? of experience
Pattern1At(s, i) ==
    Literal(s, YearsAt(s, i),
            <<" ","o","f"," ","e","x","p","e","r","i","e","n","c","e">>) # 0

\* pattern 2: (\d+)\+?\s*years? experience
Pattern2At(s, i) ==
    Literal(s, YearsAt(s, i), <<" ","e","x","p","e","r","i","e","n","c","e">>) # 0

\* pattern 3: experience\s*[:of]*\s*(\d+)\+?\s*years? ; the position of its digits,
\* or 0 when it does not match at i
Pattern3Digits(s, i) ==
    LET a == Literal(s, i, <<"e","x","p","e","r","i","e","n","c","e">>)
        b == SkipWhile(s, a, Whitespace)
        c == SkipWhile(s, b, {":", "o", "f"})
        d == SkipWhile(s, c, Whitespace)
    IN  IF a = 0 THEN 0 ELSE IF YearsAt(s, d) = 0 THEN 0 ELSE d

\* whether pattern k (1, 2 or 3, in the order of the list) matches at position i
PatternAt(s, i, k) ==
    CASE k = 1 -> Pattern1At(s, i)
      [] k = 2 -> Pattern2At(s, i)
      [] k = 3 -> Pattern3Digits(s, i) # 0

\* re.search(pattern k, s): the leftmost position that has a match, 0 if none
search(s, k) ==
    IF \E i \in 1..Len(s) : PatternAt(s, i, k)
    THEN CHOOSE i \in 1..Len(s) :
            PatternAt(s, i, k) /\ \A j \in 1..(i - 1) : ~PatternAt(s, j, k)
    ELSE 0

extract_experience_years(text) ==
    LET s == Lower(text)
        p1 == search(s, 1)
        p2 == search(s, 2)
        p3 == search(s, 3)
    IN  IF p1 # 0 THEN GroupAt(s, p1)
        ELSE IF p2 # 0 THEN GroupAt(s, p2)
        ELSE IF p3 # 0 THEN GroupAt(s, Pattern3Digits(s, p3))
        ELSE 0

\* the f-string of the role-level question; a question text is held as the
\* sequence of its literal and interpolated parts
motivational(role) ==
    <<"What excites you most about this ", role,
      " role, and what unique value do you bring?">>

\* skills[:6]
top_skills_six(skills) == Prefix(skills, 6)

\* skills[:5]
top_skills(skills) == Prefix(skills, 5)

generate_personalized_questions(skills, role) ==
    LET top == top_skills(skills)
        mapped(skill) == \E i \in 1..Len(skill_questions) : skill_questions[i].skill = skill
        lookup(skill) ==
            skill_questions[CHOOSE i \in 1..Len(skill_questions) :
                                skill_questions[i].skill = skill].question
        \* the loop: append an entry for each skill of `top` that has a question
        questions[n \in 0..Len(top)] ==
            IF n = 0 THEN <<>>
            ELSE IF mapped(top[n])
                 THEN Append(questions[n - 1],
                             [skill |-> top[n], question |-> <<lookup(top[n])>>,
                              type |-> "skill-specific"])
                 ELSE questions[n - 1]
    IN  Append(questions[Len(top)],
               [skill |-> <<"g","e","n","e","r","a","l">>,
                question |-> motivational(role),
                type |-> "motivational"])

SupportedExts == {<<".","p","d","f">>, <<".","d","o","c","x">>,
                  <<".","d","o","c">>, <<".","t","x","t">>}

\* filename = file.filename or "resume"; ext = os.path.splitext(filename)[1].lower()
resume_filename(r) ==
    IF r.filename # <<>> THEN r.filename ELSE <<"r","e","s","u","m","e">>
resume_ext(r) == Lower(splitext_ext(resume_filename(r)))

PreviewLen == 300

\* text[:300] + "..." if len(text) > 300 else text
text_preview(text) ==
    IF Len(text) > PreviewLen THEN Prefix(text, PreviewLen) \o <<".",".",".">> ELSE text

\* the handler from the request r and the files on disk; tmp_path is the name a
\* temporary file gets.  r.extraction is what the text extraction does: it
\* returns a text, or (PDF and DOCX readers only) fails, which
\* extract_text_from_pdf / extract_text_from_docx turn into a 422.
\* The result is the response, the files left, and the temporary files made.
parse_resume(files, tmp_path, r) ==
    LET filename == resume_filename(r)
        ext == resume_ext(r)
        staged == NamedTemporaryFile(files, tmp_path)
        cleaned == unlink(staged, tmp_path)
        text == r.extraction.text
        skills == extract_skills(text)
    IN  IF ext \notin SupportedExts
        THEN [resp |-> HttpError(400, "Unsupported file type. Please upload PDF, DOCX, or TXT."),
              files |-> files, made |-> 0]
        ELSE IF r.staging # "ok"
        THEN \* the exception leaves the `with` block before the try is entered
             [resp |-> Unhandled("OSError"), files |-> staged, made |-> 1]
        ELSE IF r.extraction.kind = "error"
        THEN [resp |-> HttpError(422, IF ext = <<".","p","d","f">>
                                      THEN "Could not read PDF" ELSE "Could not read DOCX"),
              files |-> cleaned, made |-> 1]
        ELSE IF IsBlank(text)
        THEN [resp |-> HttpError(422, "Could not extract text from resume. Is it a scanned image?"),
              files |-> cleaned, made |-> 1]
        ELSE [resp |-> Ok([filename |-> filename,
                           skills |-> skills,
                           experience_years |-> extract_experience_years(text),
                           text_preview |-> text_preview(text),
                           skill_count |-> Len(skills.all)]),
              files |-> cleaned, made |-> 1]

\* parse_resume is called as a plain function: what it raises propagates
get_resume_questions_return(parsed, role, personalized_questions) ==
    [resp |-> Ok([role |-> role,
                  detected_skills |-> Prefix(parsed.resp.body.skills.all, 10),
                  personalized_questions |-> personalized_questions,
                  total_questions |-> Len(personalized_questions)]),
     files |-> parsed.files, made |-> parsed.made]

\* the steps after `parsed = await parse_resume(file)` has returned or raised
get_resume_questions_after(parsed, role) ==
    IF parsed.resp.status # 200
    THEN parsed
    ELSE get_resume_questions_return(parsed, role,
             generate_personalized_questions(parsed.resp.body.skills.all, role))

get_resume_questions(files, tmp_path, r) ==
    get_resume_questions_after(parse_resume(files, tmp_path, r), r.role)

(***************************************************************************)
(* Inputs.                                                                 *)
(***************************************************************************)
\* pieces of spoken answers: fillers in both cases, a filler inside a word,
\* repeated "so"
TranscriptFragments == {
    <<"u","m"," ","u","m"," ","u","m">>,   \* um um um
    <<"U","m",","," ","U","H",","," ","l","i","k","e"," ","y","o","u"," ","k","n","o","w"," ">>,   \* Um, UH, like you know 
    <<"s","o"," ","s","o"," ","s","o"," ">>,   \* so so so 
    <<"y","u","m","m","y",","," ","a","c","t","u","a","l","l","y"," ">>   \* yummy, actually 
}

\* transcripts: up to MaxFrags fragments in a row
Transcripts == {Concat(fs) : fs \in SeqsUpTo(TranscriptFragments, MaxFrags)}

\* word counts around every band edge of length_score, and small ones that give
\* every band edge of the pace with the durations below
WordCounts == (0..11) \cup {19, 20, 29, 30, 49, 50, 150, 151, 250, 251}
Durations == {0, 1, 2, 3, 6, 10, 30}

\* pieces of resume text: skills in several cases, pieces that join into other
\* skills ("Java" + "script", "my" + "SQL"), separators
TextFragments == {
    <<"P","y","t","h","o","n">>,   \* Python
    <<"R","E","A","C","T">>,   \* REACT
    <<","," ">>,   \* , 
    <<"g","o">>,   \* go
    <<"J","a","v","a">>,   \* Java
    <<"s","c","r","i","p","t">>,   \* script
    <<"m","y">>,   \* my
    <<"S","Q","L"," ">>,   \* SQL 
    <<"L","e","a","d","e","r","s","h","i","p">>   \* Leadership
}

\* resume texts: up to MaxFrags fragments in a row
Texts == {Concat(fs) : fs \in SeqsUpTo(TextFragments, MaxFrags)}

\* a text longer than the preview: a skill, then padding
LongText == <<"p","y","t","h","o","n"," ">> \o [i \in 1..PreviewLen |-> "x"]

\* what text extraction returns for the uploads of the model
ShortResumeTexts == {
    <<>>,   \* 
    <<" ","\n">>,   \*  \n
    <<"P","y","t","h","o","n",","," ","R","E","A","C","T">>,   \* Python, REACT
    <<"r","e","a","c","t"," ","a","n","d"," ","p","y","t","h","o","n">>,   \* react and python
    <<"5","+"," ","y","e","a","r","s"," ","o","f"," ","e","x","p","e","r","i","e","n","c","e"," ","i","n"," ","S","Q","L">>,   \* 5+ years of experience in SQL
    <<"E","x","p","e","r","i","e","n","c","e",":"," ","1","2"," ","y","e","a","r","s","."," ","L","e","a","d","e","r","s","h","i","p",","," ","c","o","m","m","u","n","i","c","a","t","i","o","n",","," ","D","o","c","k","e","r",","," ","A","W","S",","," ","T","y","p","e","S","c","r","i","p","t",","," ","D","j","a","n","g","o">>   \* Experience: 12 years. Leadership, commun'..
}

ResumeTexts == ShortResumeTexts \cup {LongText}

\* upload names: the four supported extensions (one in upper case), others, a
\* dot-file, and no name
ResumeFilenames == {
    <<"c","v",".","p","d","f">>,   \* cv.pdf
    <<"C","V",".","P","D","F">>,   \* CV.PDF
    <<"c","v",".","d","o","c","x">>,   \* cv.docx
    <<"o","l","d",".","d","o","c">>,   \* old.doc
    <<"n","o","t","e","s",".","t","x","t">>,   \* notes.txt
    <<"p","h","o","t","o",".","p","n","g">>,   \* photo.png
    <<"r","e","s","u","m","e",".","t","a","r",".","g","z">>,   \* resume.tar.gz
    <<".","p","d","f">>,   \* .pdf
    <<>>   \* 
}

AudioFilenames == {
    <<"a","n","s","w","e","r",".","w","e","b","m">>,   \* answer.webm
    <<>>   \* 
}

\* answers typed or transcribed in the browser
TypedAnswers == {
    <<>>,   \* the empty answer
    <<"u","m"," ","u","m"," ","u","m">>,   \* um um um
    <<"I"," ","a","c","t","u","a","l","l","y"," ","l","e","d"," ","a"," ","t","e","a","m"," ">>   \* I actually led a team 
}

\* what the recogniser returns for the audio of the model
AudioTranscripts == {
    <<"u","m"," ","u","m"," ","u","m">>,   \* um um um
    <<"I"," ","a","c","t","u","a","l","l","y"," ","l","e","d"," ","a"," ","t","e","a","m"," ">>   \* I actually led a team 
}

\* skills given to the question generator: two with a question, one without
SkillNames == {
    <<"p","y","t","h","o","n">>,   \* python
    <<"g","o">>,   \* go
    <<"l","e","a","d","e","r","s","h","i","p">>   \* leadership
}

SkillLists == SeqsUpTo(SkillNames, MaxSkills)
QuestionRoles == {"Software Engineer", "Data Scientist"}

\* the score lists a client may post: a score object per question, in order
ReportScores == {10, 11, 86}
ScoreLists ==
    {[i \in 1..Len(cs) |-> [question_index |-> i - 1, confidence_score |-> cs[i]]] :
        cs \in SeqsUpTo(ReportScores, MaxScores)}

\* score lists whose mean falls halfway between two integers with the even
\* neighbour below (10, 11), above (11, 12) and far from the scores (11, 86)
HalfwayScores == {10, 11, 12, 86}
HalfwayScoreLists ==
    {[i \in 1..Len(cs) |-> [question_index |-> i - 1, confidence_score |-> cs[i]]] :
        cs \in SeqsUpTo(HalfwayScores, MaxScores)}

AudioDurations == {-1, 0, 30}
QuestionIndexes == {0, 3}

(***************************************************************************)
(* The service: one action per endpoint, taken when no request is being    *)
(* served.  Each action is one request, with what its collaborators (the   *)
(* upload stream, the disk, the speech recogniser, the document readers)   *)
(* do drawn from their possible outcomes and recorded in req.              *)
(***************************************************************************)
NotConsulted == [kind |-> "none"]

AnalyzeAudio ==
    /\ op = "idle"
    /\ created < MaxUploads
    /\ \E filename \in AudioFilenames, duration \in AudioDurations,
          question_index \in QuestionIndexes, staging \in Stagings,
          recognition \in Recognitions(AudioTranscripts) \cup {NotConsulted} :
        /\ (staging = "ok") = (recognition # NotConsulted)
        /\ LET r == [filename |-> filename, duration |-> duration,
                     question_index |-> question_index, staging |-> staging,
                     recognition |-> recognition]
               out == analyze_audio(tmpfiles, created + 1, r)
           IN  /\ op' = "analyze_audio"
               /\ req' = r
               /\ resp' = out.resp
               /\ tmpfiles' = out.files
               /\ created' = created + 1
    /\ UNCHANGED bank

AnalyzeText ==
    /\ op = "idle"
    /\ \E transcript \in TypedAnswers, duration \in AudioDurations :
        LET r == [transcript |-> transcript, duration |-> duration, question_index |-> 0]
        IN  /\ op' = "analyze_text"
            /\ req' = r
            /\ resp' = analyze_text(r)
    /\ UNCHANGED <<tmpfiles, created, bank>>

GenerateReport ==
    /\ op = "idle"
    /\ \E scores \in ScoreLists :
        /\ op' = "generate_report"
        /\ req' = [scores |-> scores]
        /\ resp' = generate_report(scores)
    /\ UNCHANGED <<tmpfiles, created, bank>>

\* the upload requests of the resume endpoints: the staging is consulted only
\* for a supported extension, the extraction only after a staging that worked,
\* and reading a .txt upload back cannot fail; the long text comes as notes.txt
ResumeUploads ==
    {r \in [filename : ResumeFilenames,
            staging : Stagings \cup {"none"},
            extraction : [kind : {"text"}, text : ResumeTexts]
                            \cup {[kind |-> "error"], NotConsulted}] :
        /\ (resume_ext(r) \in SupportedExts) = (r.staging # "none")
        /\ (r.staging = "ok") = (r.extraction # NotConsulted)
        /\ (resume_ext(r) = <<".","t","x","t">>) => (r.extraction.kind # "error")
        /\ (r.extraction.kind = "text" /\ r.extraction.text = LongText)
                => (r.filename = <<"n","o","t","e","s",".","t","x","t">>)}

\* an upload endpoint has run: its outcome is the response, with the files it
\* left on disk
Respond(endpoint, r, out) ==
    /\ op' = endpoint
    /\ req' = r
    /\ resp' = out.resp
    /\ tmpfiles' = out.files
    /\ created' = created + out.made

ParseResume ==
    /\ op = "idle"
    /\ created < MaxUploads
    /\ \E r \in ResumeUploads :
        Respond("parse_resume", r, parse_resume(tmpfiles, created + 1, r))
    /\ UNCHANGED bank

GetResumeQuestions ==
    /\ op = "idle"
    /\ created < MaxUploads
    /\ \E u \in ResumeUploads, role \in QuestionRoles :
        LET r == [filename |-> u.filename, staging |-> u.staging,
                  extraction |-> u.extraction, role |-> role]
        IN  Respond("get_resume_questions", r,
                    get_resume_questions(tmpfiles, created + 1, r))
    /\ UNCHANGED bank

\* the response is sent and the server waits for the next request
Send ==
    /\ op # "idle"
    /\ op' = "idle"
    /\ req' = NoRequest
    /\ resp' = NoResponse
    /\ UNCHANGED <<tmpfiles, created, bank>>

Init ==
    /\ op = "idle"
    /\ req = NoRequest
    /\ resp = NoResponse
    /\ tmpfiles = {}
    /\ created = 0
    /\ bank = QUESTION_BANK

Next ==
    \/ GetQuestions
    \/ GetSingleQuestion
    \/ GetRoles
    \/ AnalyzeAudio
    \/ AnalyzeText
    \/ GenerateReport
    \/ ParseResume
    \/ GetResumeQuestions
    \/ Send

Spec == Init /\ [][Next]_vars

(***************************************************************************)
(* The pure functions on their own: the arguments are drawn at the start,  *)
(* the one action is the call.                                             *)
(***************************************************************************)
InitCall(name, args) ==
    /\ op = name
    /\ req \in args
    /\ resp = NoResponse
    /\ tmpfiles = {}
    /\ created = 0
    /\ bank = QUESTION_BANK

InitScore ==
    InitCall("calculate_confidence_score",
             [transcript : Transcripts, duration_seconds : Durations,
              word_count : WordCounts])

CallScore ==
    /\ op = "calculate_confidence_score"
    /\ resp = NoResponse
    /\ resp' = Return(calculate_confidence_score(
                        req.transcript, req.duration_seconds, req.word_count))
    /\ UNCHANGED <<op, req, tmpfiles, created, bank>>

SpecScore == InitScore /\ [][CallScore]_vars

InitSkills == InitCall("extract_skills", [text : Texts \cup ResumeTexts])

CallSkills ==
    /\ op = "extract_skills"
    /\ resp = NoResponse
    /\ resp' = Return(extract_skills(req.text))
    /\ UNCHANGED <<op, req, tmpfiles, created, bank>>

SpecSkills == InitSkills /\ [][CallSkills]_vars

InitQuestions ==
    InitCall("generate_personalized_questions",
             [skills : SkillLists, role : QuestionRoles])

CallQuestions ==
    /\ op = "generate_personalized_questions"
    /\ resp = NoResponse
    /\ resp' = Return(generate_personalized_questions(req.skills, req.role))
    /\ UNCHANGED <<op, req, tmpfiles, created, bank>>

SpecQuestions == InitQuestions /\ [][CallQuestions]_vars

\* the two functions that round: the score of one answer, and the report over
\* a list of scores
InitReport == InitCall("generate_report", [scores : HalfwayScoreLists])

CallReport ==
    /\ op = "generate_report"
    /\ resp = NoResponse
    /\ resp' = generate_report(req.scores)
    /\ UNCHANGED <<op, req, tmpfiles, created, bank>>

InitRounding == InitScore \/ InitReport

NextRounding == CallScore \/ CallReport

SpecRounding == InitRounding /\ [][NextRounding]_vars

(***************************************************************************)
(* Properties.                                                             *)
(***************************************************************************)
UploadOps == {"analyze_audio", "parse_resume", "get_resume_questions"}

\* C1: in both upload endpoints the temporary file that stages the upload is
\* deleted on every path by which the request can end once the file exists, a
\* failure while reading or writing the uploaded content included: no staged
\* temporary file is left on disk when the request has ended.
C1_NoTempFileOutlivesRequest ==
    (op \in UploadOps \/ op = "idle") => tmpfiles = {}

\* the temporary file is deleted on the paths that reach the try statement:
\* success, soft transcription failure, the 503, the 422s
C1_DeletedOnceStaged ==
    (op \in UploadOps /\ req.staging = "ok") => created \notin tmpfiles

\* C2: for every role and every index outside [0, len(questions)),
\* get_single_question answers with a 4xx "index out of range" error whose message
\* carries the total question count; for every index inside the range it answers
\* with the question; the request never ends in an unhandled internal failure.
C2_OutOfRangeIsStructured4xx ==
    op = "get_single_question" =>
        LET questions == IF HasKey(QUESTION_BANK, req.role)
                         THEN Item(QUESTION_BANK, req.role)
                         ELSE Item(QUESTION_BANK, "Software Engineer")
        IN  IF req.index < 0 \/ req.index >= Len(questions)
            THEN /\ resp.status \in 400..499
                 /\ resp.body.error[2] = req.index
                 /\ resp.body.error[4] = Len(questions)
            ELSE /\ resp.status = 200
                 /\ resp.body.question = questions[req.index + 1]

\* a transcription that fails softly: the recogniser did not understand the
\* speech, or something other than the service being unreachable went wrong
SoftFailure ==
    /\ op = "analyze_audio"
    /\ req.staging = "ok"
    /\ req.recognition.kind \in {"UnknownValueError", "ValueError"}

\* C3 as stated: a soft transcription failure gives a normal response with an
\* empty transcript, word_count 0 and a zero confidence score, for any duration.
C3_SoftFailureZeroScore ==
    SoftFailure =>
        /\ resp.status = 200
        /\ resp.body.transcript = <<>>
        /\ resp.body.word_count = 0
        /\ resp.body.confidence_score = 0

\* C3 amended: a soft transcription failure gives a normal response with an
\* empty transcript, word_count 0 and the score of an empty answer, which is 30
\* (length_score 20, pace_score 40, no filler penalty) with rating
\* "Needs Improvement", for any duration.
C3_SoftFailureLowestBandScore ==
    SoftFailure =>
        /\ resp.status = 200
        /\ resp.body.transcript = <<>>
        /\ resp.body.word_count = 0
        /\ resp.body.duration_seconds = req.duration
        /\ resp.body.confidence_score = 30
        /\ resp.body.rating = "Needs Improvement"
        /\ resp.body.breakdown.length_score = 20
        /\ resp.body.breakdown.pace_score = 40
        /\ resp.body.breakdown.filler_penalty = 0

\* an audio format that cannot be read, submitted with a positive duration
C3_Witness ==
    /\ SoftFailure
    /\ req.recognition.kind = "ValueError"
    /\ req.duration > 0
    /\ resp.status = 200

\* C10: for every role that is no key of the question bank, get_questions and
\* get_single_question answer as for the default role "Software Engineer" in the
\* questions, the total and the index range, and signal no error because of the
\* role; no request modifies the question bank.
C10_UnknownRoleIsDefaultRole ==
    LET default == Item(QUESTION_BANK, "Software Engineer")
        unknown == ~HasKey(QUESTION_BANK, req.role)
    IN  /\ bank = QUESTION_BANK
        /\ (op = "get_questions" /\ unknown) =>
                /\ resp.status = 200
                /\ resp.body.questions = default
                /\ resp.body.total = Len(default)
        /\ (op = "get_single_question" /\ unknown) =>
                /\ resp.status = get_single_question(bank, req.index, "Software Engineer").status
                /\ (req.index \in 0..(Len(default) - 1)) =>
                        /\ resp.status = 200
                        /\ resp.body.question = default[req.index + 1]
                        /\ resp.body.total = Len(default)
                        /\ resp.body.is_last = (req.index = Len(default) - 1)

\* the example of the specification: an unknown role, index 0
C10_Witness ==
    /\ op = "get_single_question"
    /\ req.role = "Unknown Role"
    /\ req.index = 0
    /\ resp.status = 200
    /\ resp.body.question = "Tell me about yourself and your software engineering background."
\* the rating bands of the specification
RatingBand(score) ==
    CASE score >= 85 -> "Excellent"
      [] score \in 70..84 -> "Good"
      [] score \in 50..69 -> "Average"
      [] OTHER -> "Needs Improvement"

Scored == op = "calculate_confidence_score" /\ resp.kind = "return"

\* C4: for every transcript, every duration_seconds >= 0 and every
\* word_count >= 0, calculate_confidence_score returns an integer
\* confidence_score in [10, 100] and the rating that is the band of that score;
\* at duration 0 the wpm is 0 and the pace_score is 40.
C4_ScoreClampedAndRated ==
    Scored =>
        /\ resp.value.confidence_score \in 10..100
        /\ resp.value.rating = RatingBand(resp.value.confidence_score)
        /\ (req.duration_seconds = 0) =>
                /\ resp.value.breakdown.words_per_minute10 = 0
                /\ resp.value.breakdown.pace_score = 40

\* zero duration with a fifty-word answer: 0.5*90 + 0.5*40 = 65, "Average"
C4_Witness ==
    /\ Scored
    /\ req.duration_seconds = 0
    /\ req.word_count = 50
    /\ req.transcript = <<>>
    /\ resp.value.confidence_score = 65
    /\ resp.value.rating = "Average"

\* the bands of the specification, on word_count and on wpm = 60 * word_count /
\* duration_seconds (0 when the duration is 0)
LengthBand(word_count) ==
    CASE word_count \in 0..9 -> 20
      [] word_count \in 10..29 -> 45
      [] word_count \in 30..49 -> 65
      [] word_count \in 50..150 -> 90
      [] word_count \in 151..250 -> 75
      [] OTHER -> 55

PaceBand(word_count, duration_seconds) ==
    LET n == IF duration_seconds > 0 THEN 60 * word_count ELSE 0
        d == IF duration_seconds > 0 THEN duration_seconds ELSE 1
    IN  CASE 120 * d <= n /\ n <= 160 * d -> 100
          [] (90 * d <= n /\ n < 120 * d) \/ (160 * d < n /\ n <= 190 * d) -> 80
          [] (60 * d <= n /\ n < 90 * d) \/ (190 * d < n /\ n <= 220 * d) -> 60
          [] OTHER -> 40

Clamp(x, lo, hi) == IF x < lo THEN lo ELSE IF x > hi THEN hi ELSE x

\* C5: confidence_score = clamp(round(0.5*length_score + 0.5*pace_score -
\* filler_penalty), 10, 100) with length_score and pace_score following their
\* bands and filler_penalty = min(3*filler_count, 20); "um um um" with duration
\* 10 and word_count 20 gives 64, "Average".
C5_ScoreFormula ==
    Scored =>
        LET b == resp.value.breakdown
            twice == b.length_score + b.pace_score - 2 * b.filler_penalty
        IN  /\ b.length_score = LengthBand(req.word_count)
            /\ b.pace_score = PaceBand(req.word_count, req.duration_seconds)
            /\ b.filler_penalty = (IF 3 * b.filler_count < 20 THEN 3 * b.filler_count ELSE 20)
            \* round: an integer at most one half away from the raw score
            /\ \E r \in 0..100 :
                    /\ 2 * r - twice \in -1..1
                    /\ resp.value.confidence_score = Clamp(r, 10, 100)
            /\ (/\ req.transcript = <<"u","m"," ","u","m"," ","u","m">>
                /\ req.duration_seconds = 10
                /\ req.word_count = 20) =>
                    /\ b.filler_count = 3
                    /\ resp.value.confidence_score = 64
                    /\ resp.value.rating = "Average"

\* the example of the specification, and an answer whose fillers reach the cap
C5_Witness ==
    /\ Scored
    /\ req.transcript = <<"u","m"," ","u","m"," ","u","m">>
    /\ req.duration_seconds = 10
    /\ req.word_count = 20
    /\ resp.value.confidence_score = 64

C5_WitnessCap ==
    /\ Scored
    /\ resp.value.breakdown.filler_count > 7
    /\ resp.value.breakdown.filler_penalty = 20
    /\ req.word_count = 10

\* C6: for a non-empty list generate_report returns overall_score = the
\* integer-rounded mean of confidence_score, best_answer = the first element in
\* input order with the maximum confidence_score, weakest_answer = the first with
\* the minimum; N identical scores give that score as average, best and worst;
\* the empty list fails with a client error and produces no report.
C6_ReportAggregates ==
    op = "generate_report" =>
        LET scores == req.scores
            n == Len(scores)
            cs(i) == scores[i].confidence_score
            total == SumSeq([i \in 1..n |-> cs(i)])
            firstMax == CHOOSE i \in 1..n :
                            /\ \A j \in 1..n : cs(j) <= cs(i)
                            /\ \A j \in 1..(i - 1) : cs(j) < cs(i)
            firstMin == CHOOSE i \in 1..n :
                            /\ \A j \in 1..n : cs(j) >= cs(i)
                            /\ \A j \in 1..(i - 1) : cs(j) > cs(i)
        IN  IF n = 0
            THEN /\ resp.status \in 400..499
                 /\ DOMAIN resp.body = {"detail"}
            ELSE /\ resp.status = 200
                 \* an integer at most one half away from the mean
                 /\ 2 * (n * resp.body.overall_score - total) \in (-n)..n
                 /\ resp.body.best_answer =
                        [question_index |-> scores[firstMax].question_index,
                         score |-> cs(firstMax)]
                 /\ resp.body.weakest_answer =
                        [question_index |-> scores[firstMin].question_index,
                         score |-> cs(firstMin)]
                 /\ (\A i \in 1..n : cs(i) = cs(1)) =>
                        /\ resp.body.overall_score = cs(1)
                        /\ resp.body.best_answer.score = cs(1)
                        /\ resp.body.weakest_answer.score = cs(1)

\* a tie for the maximum after a smaller first score: the first of the two wins
C6_Witness ==
    /\ op = "generate_report"
    /\ Len(req.scores) = 3
    /\ req.scores[1].confidence_score = 11
    /\ req.scores[2].confidence_score = 86
    /\ req.scores[3].confidence_score = 86
    /\ resp.body.best_answer.question_index = 1
    /\ resp.body.weakest_answer.question_index = 0
    /\ resp.body.overall_score = 61

C6_WitnessEmpty ==
    /\ op = "generate_report"
    /\ req.scores = <<>>
    /\ resp.status = 400

\* what the claims about parse_resume read from a request
ExtSupported == Lower(splitext_ext(resume_filename(req))) \in SupportedExts
TextExtracted == req.extraction.kind = "text"
ExtractedBlank ==
    /\ TextExtracted
    /\ \A i \in 1..Len(req.extraction.text) : req.extraction.text[i] \in Whitespace

\* the successful answer: skills, experience years, the preview and the count
ParseSucceeded ==
    /\ resp.status = 200
    /\ DOMAIN resp.body =
            {"filename", "skills", "experience_years", "text_preview", "skill_count"}
    /\ resp.body.skill_count = Len(resp.body.skills.all)

\* C7 as stated: an unsupported extension fails with an unsupported-media client
\* error and no extraction is attempted; a supported file whose extracted text is
\* empty or whitespace-only fails with a 422; every other upload succeeds with
\* skills, experience years, the preview and skill_count = len(skills.all).
C7_ThreeOutcomes ==
    op = "parse_resume" =>
        IF ~ExtSupported
        THEN /\ resp.status \in 400..499
             /\ resp.body.detail = "Unsupported file type. Please upload PDF, DOCX, or TXT."
             /\ req.extraction = NotConsulted
        ELSE IF ExtractedBlank
        THEN resp.status = 422
        ELSE ParseSucceeded

\* C7 amended: an unsupported extension fails with the unsupported-file-type
\* client error (400) and neither staging nor extraction is attempted; a
\* supported file whose upload cannot be read or staged ends in an unhandled
\* failure (500); a supported file whose text extraction fails, or whose
\* extracted text is empty or whitespace-only, fails with a 422; every other
\* upload succeeds with skills, experience years, the preview and
\* skill_count = len(skills.all).
C7_FiveOutcomes ==
    op = "parse_resume" =>
        IF ~ExtSupported
        THEN /\ resp.status = 400
             /\ resp.body.detail = "Unsupported file type. Please upload PDF, DOCX, or TXT."
             /\ req.staging = "none"
             /\ req.extraction = NotConsulted
        ELSE IF req.staging # "ok"
        THEN resp.status = 500
        ELSE IF ~TextExtracted
        THEN /\ resp.status = 422
             /\ resp.body.detail \in {"Could not read PDF", "Could not read DOCX"}
        ELSE IF ExtractedBlank
        THEN /\ resp.status = 422
             /\ resp.body.detail = "Could not extract text from resume. Is it a scanned image?"
        ELSE /\ ParseSucceeded
             /\ resp.body.text_preview =
                    (IF Len(req.extraction.text) > 300
                     THEN SubSeq(req.extraction.text, 1, 300) \o <<".",".",".">>
                     ELSE req.extraction.text)

\* a whitespace-only text from a supported file; an unreadable PDF; a resume
\* that parses, with its skills counted
C7_WitnessBlank ==
    /\ op = "parse_resume"
    /\ ExtSupported
    /\ TextExtracted
    /\ req.extraction.text = <<" ", "\n">>
    /\ resp.status = 422

C7_WitnessUnreadable ==
    /\ op = "parse_resume"
    /\ req.filename = <<"c","v",".","p","d","f">>
    /\ req.extraction.kind = "error"
    /\ resp.status = 422

C7_Witness ==
    /\ op = "parse_resume"
    /\ req.filename = <<"C","V",".","P","D","F">>
    /\ TextExtracted
    /\ resp.status = 200
    /\ resp.body.skill_count = 2
    /\ resp.body.experience_years = 5

\* C8: generate_personalized_questions returns, in input order, one
\* skill-specific entry for each of the first 5 input skills that has a mapped
\* question (later skills and unmapped skills contribute nothing, and nothing
\* replaces a skipped one), then exactly one motivational entry that names the
\* role, as the last element; the length is between 1 and 6.
MappedSkills == {skill_questions[i].skill : i \in 1..Len(skill_questions)}

C8_QuestionsForFirstFive ==
    (op = "generate_personalized_questions" /\ resp.kind = "return") =>
        LET q == resp.value
            n == Len(q)
            firstFive == SubSeq(req.skills, 1, IF Len(req.skills) < 5 THEN Len(req.skills) ELSE 5)
            expected == SelectSeq(firstFive, LAMBDA sk : sk \in MappedSkills)
        IN  /\ n \in 1..6
            /\ n = Len(expected) + 1
            /\ \A i \in 1..(n - 1) :
                    /\ q[i].type = "skill-specific"
                    /\ q[i].skill = expected[i]
                    /\ \E k \in 1..Len(skill_questions) :
                            /\ skill_questions[k].skill = q[i].skill
                            /\ q[i].question = <<skill_questions[k].question>>
            /\ q[n].type = "motivational"
            /\ q[n].question[2] = req.role

\* six skills, the sixth mapped, one of the first five unmapped
C8_Witness ==
    /\ op = "generate_personalized_questions"
    /\ resp.kind = "return"
    /\ Len(req.skills) = 6
    /\ req.skills[2] = <<"g","o">>
    /\ req.skills[6] = <<"p","y","t","h","o","n">>
    /\ Len(resp.value) = 5
    /\ resp.value[5].type = "motivational"

\* the text with every lower-case letter in upper case, and the reverse
ToUpper == [c \in {LowerCase[i] : i \in 1..Len(LowerCase)} |->
                UpperCase[CHOOSE i \in 1..Len(LowerCase) : LowerCase[i] = c]]
SwapCase(s) ==
    [i \in 1..Len(s) |->
        IF s[i] \in DOMAIN ToUpper THEN ToUpper[s[i]]
        ELSE IF s[i] \in DOMAIN ToLower THEN ToLower[s[i]]
        ELSE s[i]]
AllLower(s) ==
    [i \in 1..Len(s) |-> IF s[i] \in DOMAIN ToLower THEN ToLower[s[i]] ELSE s[i]]

\* the positions in a vocabulary of the entries of a result list
IsVocabularySelection(found, vocabulary, text_lower) ==
    \* exactly the entries that occur in the lower-cased text
    /\ \A k \in 1..Len(vocabulary) :
            (\E i \in 1..Len(found) : found[i] = vocabulary[k])
                <=> (\E p \in 1..Len(text_lower) :
                        /\ p + Len(vocabulary[k]) - 1 <= Len(text_lower)
                        /\ SubSeq(text_lower, p, p + Len(vocabulary[k]) - 1) = vocabulary[k])
    /\ \A i \in 1..Len(found) : \E k \in 1..Len(vocabulary) : found[i] = vocabulary[k]
    \* in vocabulary order, each once
    /\ \A i, j \in 1..Len(found) :
            i < j => \E k, m \in 1..Len(vocabulary) :
                        k < m /\ vocabulary[k] = found[i] /\ vocabulary[m] = found[j]

\* C9: extract_skills is case-insensitive and order-stable: texts that differ
\* only in letter case give the same technical, soft and all lists; each list
\* holds exactly the vocabulary entries that occur as a substring of the
\* lower-cased text, in vocabulary order, without duplicates; all is technical
\* followed by soft.
C9_CaseInsensitiveVocabularyOrder ==
    (op = "extract_skills" /\ resp.kind = "return") =>
        LET found == resp.value
            text_lower == AllLower(req.text)
        IN  /\ found = extract_skills(SwapCase(req.text))
            /\ found = extract_skills(text_lower)
            /\ IsVocabularySelection(found.technical, TECH_SKILLS, text_lower)
            /\ IsVocabularySelection(found.soft, SOFT_SKILLS, text_lower)
            /\ found.all = found.technical \o found.soft

\* "REACT" before "Python" in the text: python comes first in the result, and r,
\* which occurs inside both words, after it
C9_Witness ==
    /\ op = "extract_skills"
    /\ resp.kind = "return"
    /\ req.text = <<"R","E","A","C","T","P","y","t","h","o","n">>
    /\ resp.value.technical =
            << <<"p","y","t","h","o","n">>, <<"r">>, <<"r","e","a","c","t">> >>

\* a report was produced from a non-empty list
Reported == op = "generate_report" /\ resp.kind = "http" /\ resp.status = 200

\* v is the even one of the two integers next to the half-integer twice / 2
EvenNeighbour(v, twice) == v % 2 = 0 /\ 2 * v - twice \in {-1, 1}

\* C11: whenever the value being rounded lies exactly halfway between two
\* integers, calculate_confidence_score and generate_report return the even
\* neighbour rather than rounding up: raw_score is a half-integer exactly when
\* length_score is odd, and then confidence_score is the even integer next to
\* it; a mean of confidence_score that is a half-integer gives the even integer
\* next to it as overall_score; length_score 45 with pace_score 80 and no
\* fillers yields 62, and the report over scores 10 and 11 yields 10.
C11_HalfwayToEven ==
    /\ Scored =>
            LET b == resp.value.breakdown
                twice == b.length_score + b.pace_score - 2 * b.filler_penalty
            IN  /\ (twice % 2 = 1) = (b.length_score % 2 = 1)
                /\ (twice % 2 = 1) => EvenNeighbour(resp.value.confidence_score, twice)
                /\ (b.length_score = 45 /\ b.pace_score = 80 /\ b.filler_count = 0)
                        => resp.value.confidence_score = 62
    /\ Reported =>
            LET scores == req.scores
                n == Len(scores)
                total == SumSeq([i \in 1..n |-> scores[i].confidence_score])
            IN  \* the mean is k + 1/2 when 2 * total is an odd multiple of n
                /\ \A k \in 0..100 :
                        (2 * total = (2 * k + 1) * n)
                            => EvenNeighbour(resp.body.overall_score, 2 * k + 1)
                /\ (n = 2 /\ scores[1].confidence_score = 10
                           /\ scores[2].confidence_score = 11)
                        => resp.body.overall_score = 10

\* the example of the score: ten words in six seconds are 100 wpm, so 0.5*45 +
\* 0.5*80 = 62.5, which becomes 62
C11_Witness ==
    /\ Scored
    /\ req.transcript = <<>>
    /\ req.word_count = 10
    /\ req.duration_seconds = 6
    /\ resp.value.breakdown.length_score = 45
    /\ resp.value.breakdown.pace_score = 80
    /\ resp.value.confidence_score = 62

\* a half-integer raw score whose even neighbour is the upper one: 0.5*45 +
\* 0.5*80 - 3 = 59.5 becomes 60
C11_WitnessScoreUp ==
    /\ Scored
    /\ resp.value.breakdown.length_score = 45
    /\ resp.value.breakdown.pace_score = 80
    /\ resp.value.breakdown.filler_penalty = 3
    /\ resp.value.confidence_score = 60

\* the example of the report: the mean 10.5 becomes 10
C11_WitnessReport ==
    /\ Reported
    /\ Len(req.scores) = 2
    /\ req.scores[1].confidence_score = 10
    /\ req.scores[2].confidence_score = 11
    /\ resp.body.overall_score = 10

\* a mean whose even neighbour is the upper one: 11.5 becomes 12
C11_WitnessReportUp ==
    /\ Reported
    /\ Len(req.scores) = 2
    /\ req.scores[1].confidence_score = 11
    /\ req.scores[2].confidence_score = 12
    /\ resp.body.overall_score = 12

============================================================================
